---------------------------- MODULE Spec2Model ----------------------------
(***************************************************************************)
(* BusTub buffer pool: the LRU-K replacer (lru_k_replacer.cpp) and the     *)
(* buffer pool manager (buffer_pool_manager.cpp), as state machines.       *)
(*                                                                         *)
(* SpecReplacer drives the replacer through its public interface           *)
(* (RecordAccess, SetEvictable, Evict, Remove) with arbitrary arguments.   *)
(* Spec runs a pool of NumFrames frames under NumThreads threads that call *)
(* the pool's public operations and use the page guards they obtain.       *)
(* SpecHLL and SpecPresto add elements to a HyperLogLog                    *)
(* (primer/hyperloglog.cpp) and a HyperLogLogPresto                        *)
(* (primer/hyperloglog_presto.cpp).                                        *)
(***************************************************************************)
EXTENDS Integers, Sequences, FiniteSets, TLC

VARIABLES
  replacer,      \* LRUKReplacer: replacer_size, k, node_store, curr_size, current_timestamp
  ret,           \* the call made last and what it returned
  page_table,    \* BufferPoolManager::page_table_: page id -> frame id, NoFrame when absent
  free_frames,   \* BufferPoolManager::free_frames_
  frames,        \* BufferPoolManager::frames_: the frame headers
  next_page_id,  \* BufferPoolManager::next_page_id_
  bpm_latch,     \* the thread holding *bpm_latch_, NoThread when free
  disk,          \* the disk's content, page id -> bytes
  pc,            \* per thread: where it is inside a pool operation
  op,            \* per thread: the acquisition in progress (page, frame, mode, where the
                 \* frame came from, whether it was flushed)
  guard,         \* per thread: the page guard it owns
  fl,            \* per thread: the FlushPage call in progress
  alloc,         \* the page ids NewPage has returned, in the order of the calls, with the caller
  nflush,        \* the number of FlushPage calls threads have made
  committed,     \* per page: the bytes a WriteGuard left in it when it was dropped
  crashed,       \* std::terminate was called (BUSTUB_ENSURE failed)
  hll            \* the HyperLogLog / HyperLogLogPresto object (SpecHLL, SpecPresto)

vars == <<replacer, ret, page_table, free_frames, frames, next_page_id, bpm_latch,
          disk, pc, op, guard, fl, alloc, nflush, committed, crashed, hll>>

bpmvars == <<page_table, free_frames, frames, next_page_id, bpm_latch,
             disk, pc, op, guard, fl, alloc, nflush, committed, crashed>>

-----------------------------------------------------------------------------
(* Bounds of the model *)

\* frames of the replacer driven on its own (SpecReplacer)
ReplacerFrames == 3
\* the largest k the replacer is constructed with in SpecReplacer
MaxK == 3
\* RecordAccess is called while current_timestamp_ is below this (SpecReplacer)
MaxTs == 4
\* frames of the buffer pool (Spec)
NumFrames == 2
\* threads calling the pool
NumThreads == 2
\* page ids 0..MaxPage are requested
MaxPage == 2
\* a page's bytes are one value of 0..MaxVal
MaxVal == 1
\* the pool pins frames while current_timestamp_ is below this (Spec)
MaxPins == 4
\* NewPage is called while next_page_id_ is below this
MaxNewPages == 3
\* threads call FlushPage at most this many times
MaxFlush == 1
\* the largest number of leading bits a HyperLogLog is constructed with
MaxBucketBits == 2
\* AddElem calls made on one HyperLogLogPresto
MaxAdds == 3
\* hash values have at most this many one-bits, at the positions of BitSample
MaxOnes == 2

(* Program constants *)

\* std::numeric_limits<size_t>::max(), the "infinite" backward k-distance
SIZE_MAX == 2147483647
\* k_dist the pool constructs its replacer with
K_DIST == 2

\* primer/hyperloglog_presto.h
BITSET_CAPACITY == 64
DENSE_BUCKET_SIZE == 4
DENSE_MASK == 15
OVERFLOW_BUCKET_SIZE == 3
OVERFLOW_MASK == 7

NoFrame == -1
NoThread == 0
INVALID_PAGE_ID == -1

Threads == 1..NumThreads
Pages == 0..MaxPage
Vals == 0..MaxVal

-----------------------------------------------------------------------------
(* LRUKNode *)

Back(h) == h[Len(h)]

LRUKNode == [history |-> <<>>, is_evictable |-> FALSE, exist |-> FALSE]

\* the distance taken from the newest retained access, history_.front()
KthDistance_Newest(node, k, ts) ==
  IF Len(node.history) < k THEN SIZE_MAX ELSE ts - node.history[1]

KthDistance(node, k, ts) ==
  IF Len(node.history) < k THEN SIZE_MAX ELSE ts - Back(node.history)

\* history_.back(); on an empty list the read is undefined and yields `undef`
EarliestTimeStamp(node, undef) ==
  IF node.history = <<>> THEN undef ELSE Back(node.history)

\* Access without history_.pop_back()
Access_KeepsAll(node, k, ts) ==
  [node EXCEPT !.exist = TRUE, !.history = <<ts>> \o node.history]

Access(node, k, ts) ==
  LET h == node.history
      kept == IF Len(h) >= k THEN SubSeq(h, 1, Len(h) - 1) ELSE h
  IN [node EXCEPT !.exist = TRUE, !.history = <<ts>> \o kept]

NodeSetEvictable(node, set_evictable) == [node EXCEPT !.is_evictable = set_evictable]

NodeEvict(node) == [history |-> <<>>, is_evictable |-> FALSE, exist |-> FALSE]

-----------------------------------------------------------------------------
(* LRUKReplacer *)

FrameIds(r) == 0..(r.replacer_size - 1)

NewReplacer(num_frames, k) ==
  [replacer_size |-> num_frames, k |-> k,
   node_store |-> [f \in 0..(num_frames - 1) |-> LRUKNode],
   curr_size |-> 0, current_timestamp |-> 0]

\* size_t arithmetic of curr_size_ -= 1
SizeDec(n) == IF n = 0 THEN SIZE_MAX ELSE n - 1

Evictables(r) == {f \in FrameIds(r) : r.node_store[f].is_evictable}

\* the orders in which the loop over node_store_ (an unordered_map) can visit the
\* evictable nodes; the loop skips the others
Orders(r) ==
  LET n == Cardinality(Evictables(r))
  IN {o \in [1..n -> Evictables(r)] : \A i, j \in 1..n : i /= j => o[i] /= o[j]}

\* the evictable nodes whose history is empty: Evict reads history_.back() of each
EmptyEvictable(r) ==
  {f \in FrameIds(r) : r.node_store[f].is_evictable /\ r.node_store[f].history = <<>>}

\* what such a read can yield: below, among and above the recorded timestamps
UndefTs == {0, 1, SIZE_MAX}

RECURSIVE EvictScan(_, _, _, _, _, _, _)
\* the loop of Evict from position i of `order`; the result is the victim
EvictScan(r, order, undef, i, victim, largest_distance, earliest_timestamp) ==
  IF i > Len(order) THEN victim
  ELSE
    LET fid == order[i]
        node == r.node_store[fid]
    IN IF ~node.is_evictable
       THEN EvictScan(r, order, undef, i + 1, victim, largest_distance, earliest_timestamp)
       ELSE
         LET k_distance == KthDistance(node, r.k, r.current_timestamp)
             ts == EarliestTimeStamp(node, IF fid \in DOMAIN undef THEN undef[fid] ELSE 0)
         IN IF victim = NoFrame \/ k_distance > largest_distance
               \/ (k_distance = largest_distance /\ ts < earliest_timestamp)
            THEN EvictScan(r, order, undef, i + 1, fid, k_distance, ts)
            ELSE EvictScan(r, order, undef, i + 1, victim, largest_distance, earliest_timestamp)

EvictVictim(r, order, undef) == EvictScan(r, order, undef, 1, NoFrame, 0, SIZE_MAX)

\* Evict that lowers curr_size_ also when it found no victim
EvictApply_CountsMiss(r, victim) ==
  IF victim = NoFrame THEN [r EXCEPT !.curr_size = SizeDec(@)]
  ELSE [r EXCEPT !.node_store[victim] = NodeEvict(@),
                 !.curr_size = SizeDec(@)]

\* the replacer after Evict has chosen `victim`
EvictApply(r, victim) ==
  IF victim = NoFrame THEN r
  ELSE [r EXCEPT !.node_store[victim] = NodeEvict(@),
                 !.curr_size = SizeDec(@)]

\* a range check that lets frame id num_frames through
InRange_Inclusive(r, frame_id) == frame_id >= 0 /\ frame_id <= r.replacer_size

InRange(r, frame_id) == frame_id >= 0 /\ frame_id < r.replacer_size

\* RecordAccess on a valid frame id
RecordAccess(r, frame_id) ==
  [r EXCEPT !.node_store[frame_id] = Access(@, r.k, r.current_timestamp),
            !.current_timestamp = @ + 1]

\* SetEvictable without the early return when the flag is already set
SetEvictable_NoCheck(r, frame_id, set_evictable) ==
  [r EXCEPT !.node_store[frame_id] = NodeSetEvictable(@, set_evictable),
            !.curr_size = IF set_evictable THEN @ + 1 ELSE SizeDec(@)]

\* SetEvictable that counts a frame again when it is marked evictable twice
SetEvictable_CountsRepeat(r, frame_id, set_evictable) ==
  IF r.node_store[frame_id].is_evictable = set_evictable
  THEN [r EXCEPT !.curr_size = IF set_evictable THEN @ + 1 ELSE @]
  ELSE [r EXCEPT !.node_store[frame_id] = NodeSetEvictable(@, set_evictable),
                 !.curr_size = IF set_evictable THEN @ + 1 ELSE SizeDec(@)]

\* SetEvictable on a valid frame id
SetEvictable(r, frame_id, set_evictable) ==
  IF r.node_store[frame_id].is_evictable = set_evictable THEN r
  ELSE [r EXCEPT !.node_store[frame_id] = NodeSetEvictable(@, set_evictable),
                 !.curr_size = IF set_evictable THEN @ + 1 ELSE SizeDec(@)]

\* Remove that throws on a frame id out of range, as RecordAccess does
RemoveThrows_OutOfRange(r, frame_id) ==
  \/ ~InRange(r, frame_id)
  \/ r.node_store[frame_id].exist /\ ~r.node_store[frame_id].is_evictable

\* whether Remove throws std::invalid_argument
RemoveThrows(r, frame_id) ==
  /\ InRange(r, frame_id)
  /\ r.node_store[frame_id].exist
  /\ ~r.node_store[frame_id].is_evictable

\* Remove when it does not throw
Remove(r, frame_id) ==
  IF ~InRange(r, frame_id) THEN r
  ELSE IF ~r.node_store[frame_id].exist THEN r
  ELSE [r EXCEPT !.node_store[frame_id] = NodeEvict(@),
                 !.curr_size = SizeDec(@)]

Size(r) == r.curr_size

-----------------------------------------------------------------------------
(* The replacer driven through its interface *)

\* frame ids passed to the replacer: the valid ones, one below and one above
ArgFrames(r) == (-1)..r.replacer_size

NoRet == [call |-> "none", frame_id |-> NoFrame, flag |-> FALSE, result |-> "none"]

CallRecordAccess(frame_id) ==
  /\ replacer.current_timestamp < MaxTs
  /\ IF InRange(replacer, frame_id)
     THEN /\ replacer' = RecordAccess(replacer, frame_id)
          /\ ret' = [call |-> "RecordAccess", frame_id |-> frame_id, flag |-> FALSE, result |-> "ok"]
     ELSE /\ replacer' = replacer
          /\ ret' = [call |-> "RecordAccess", frame_id |-> frame_id, flag |-> FALSE,
                     result |-> "invalid_argument"]
  /\ UNCHANGED <<bpmvars, hll>>

CallSetEvictable(frame_id, set_evictable) ==
  /\ IF InRange(replacer, frame_id)
     THEN /\ replacer' = SetEvictable(replacer, frame_id, set_evictable)
          /\ ret' = [call |-> "SetEvictable", frame_id |-> frame_id, flag |-> set_evictable,
                     result |-> "ok"]
     ELSE /\ replacer' = replacer
          /\ ret' = [call |-> "SetEvictable", frame_id |-> frame_id, flag |-> set_evictable,
                     result |-> "invalid_argument"]
  /\ UNCHANGED <<bpmvars, hll>>

CallEvict ==
  /\ \E order \in Orders(replacer), undef \in [EmptyEvictable(replacer) -> UndefTs] :
       LET victim == EvictVictim(replacer, order, undef)
       IN /\ replacer' = EvictApply(replacer, victim)
          /\ ret' = [call |-> "Evict", frame_id |-> victim, flag |-> FALSE,
                     result |-> IF victim = NoFrame THEN "nullopt" ELSE "frame"]
  /\ UNCHANGED <<bpmvars, hll>>

CallRemove(frame_id) ==
  /\ IF RemoveThrows(replacer, frame_id)
     THEN /\ replacer' = replacer
          /\ ret' = [call |-> "Remove", frame_id |-> frame_id, flag |-> FALSE,
                     result |-> "invalid_argument"]
     ELSE /\ replacer' = Remove(replacer, frame_id)
          /\ ret' = [call |-> "Remove", frame_id |-> frame_id, flag |-> FALSE, result |-> "ok"]
  /\ UNCHANGED <<bpmvars, hll>>

-----------------------------------------------------------------------------
(* The buffer pool *)

FrameHeader == [page_id |-> INVALID_PAGE_ID, pin_count |-> 0, is_dirty |-> FALSE, data |-> 0]

NoOp == [page_id |-> INVALID_PAGE_ID, frame_id |-> NoFrame, write |-> FALSE, source |-> "none",
         flushed |-> FALSE]
NoGuard == [page_id |-> INVALID_PAGE_ID, frame_id |-> NoFrame, write |-> FALSE, held |-> FALSE]
NoFlush == [page_id |-> INVALID_PAGE_ID, frame_id |-> NoFrame]
\* no HyperLogLog object is constructed
NoHll == [kind |-> "none"]

\* the pool after its constructor ran with num_frames frames
BpmInitOf(num_frames) ==
  /\ page_table = [p \in Pages |-> NoFrame]
  /\ free_frames = [i \in 1..num_frames |-> i - 1]
  /\ frames = [f \in 0..(num_frames - 1) |-> FrameHeader]
  /\ next_page_id = 0
  /\ bpm_latch = NoThread
  /\ disk = [p \in Pages |-> 0]
  /\ pc = [t \in Threads |-> "idle"]
  /\ op = [t \in Threads |-> NoOp]
  /\ guard = [t \in Threads |-> NoGuard]
  /\ fl = [t \in Threads |-> NoFlush]
  /\ alloc = <<>>
  /\ nflush = 0
  /\ committed = [p \in Pages |-> -1]
  /\ crashed = FALSE

BpmInit == BpmInitOf(NumFrames)

InitReplacer ==
  /\ \E k \in 1..MaxK : replacer = NewReplacer(ReplacerFrames, k)
  /\ ret = NoRet
  /\ BpmInit
  /\ hll = NoHll

NextReplacer ==
  \/ \E f \in ArgFrames(replacer) : CallRecordAccess(f)
  \/ \E f \in ArgFrames(replacer), b \in BOOLEAN : CallSetEvictable(f, b)
  \/ CallEvict
  \/ \E f \in ArgFrames(replacer) : CallRemove(f)

SpecReplacer == InitReplacer /\ [][NextReplacer]_vars

-----------------------------------------------------------------------------
(* The first revision of lru_k_replacer.cpp kept in the repository. Its nodes have no
   exist_ flag; the field of that name in the records below is never read here. *)

\* history_.front(), the newest retained access; undefined on an empty list
EarlistTimeStamp(node, undef) ==
  IF node.history = <<>> THEN undef ELSE node.history[1]

RECURSIVE EvictScanRev1(_, _, _, _, _, _, _)
\* the loop of this revision's Evict from position i of `order`
EvictScanRev1(r, order, undef, i, victim, largest, earliest) ==
  IF i > Len(order) THEN victim
  ELSE
    LET fid == order[i]
        node == r.node_store[fid]
    IN IF ~node.is_evictable
       THEN EvictScanRev1(r, order, undef, i + 1, victim, largest, earliest)
       ELSE
         LET kd == KthDistance(node, r.k, r.current_timestamp)
             ts == EarlistTimeStamp(node, IF fid \in DOMAIN undef THEN undef[fid] ELSE 0)
         IN IF kd > largest
            THEN EvictScanRev1(r, order, undef, i + 1, fid, kd, ts)
            ELSE IF kd = largest /\ ts < earliest
            THEN EvictScanRev1(r, order, undef, i + 1, fid, largest, ts)
            ELSE EvictScanRev1(r, order, undef, i + 1, victim, largest, earliest)

\* frame_id_t victim = 0 ... if (victim != 0) return victim; return std::nullopt
EvictVictimRev1(r, order, undef) ==
  LET victim == EvictScanRev1(r, order, undef, 1, 0, 0, 0)
  IN IF victim /= 0 THEN victim ELSE NoFrame

\* this revision's Remove throws for every in-range node that is not evictable
RemoveThrowsRev1(r, frame_id) ==
  /\ InRange(r, frame_id)
  /\ ~r.node_store[frame_id].is_evictable

\* this revision's Remove when it does not throw
RemoveRev1(r, frame_id) ==
  IF ~InRange(r, frame_id) THEN r
  ELSE [r EXCEPT !.node_store[frame_id] = NodeEvict(@),
                 !.curr_size = SizeDec(@)]

CallEvictRev1 ==
  /\ \E order \in Orders(replacer), undef \in [EmptyEvictable(replacer) -> UndefTs] :
       LET victim == EvictVictimRev1(replacer, order, undef)
       IN /\ replacer' = EvictApply(replacer, victim)
          /\ ret' = [call |-> "Evict", frame_id |-> victim, flag |-> FALSE,
                     result |-> IF victim = NoFrame THEN "nullopt" ELSE "frame"]
  /\ UNCHANGED <<bpmvars, hll>>

CallRemoveRev1(frame_id) ==
  /\ IF RemoveThrowsRev1(replacer, frame_id)
     THEN /\ replacer' = replacer
          /\ ret' = [call |-> "Remove", frame_id |-> frame_id, flag |-> FALSE,
                     result |-> "invalid_argument"]
     ELSE /\ replacer' = RemoveRev1(replacer, frame_id)
          /\ ret' = [call |-> "Remove", frame_id |-> frame_id, flag |-> FALSE, result |-> "ok"]
  /\ UNCHANGED <<bpmvars, hll>>

NextReplacerRev1 ==
  \/ \E f \in ArgFrames(replacer) : CallRecordAccess(f)
  \/ \E f \in ArgFrames(replacer), b \in BOOLEAN : CallSetEvictable(f, b)
  \/ CallEvictRev1
  \/ \E f \in ArgFrames(replacer) : CallRemoveRev1(f)

SpecReplacerRev1 == InitReplacer /\ [][NextReplacerRev1]_vars

-----------------------------------------------------------------------------
(* BufferPoolManager: helpers *)

\* a lookup that never finds the page
GetFrame_NotFound(pt, page_id) == NoFrame

GetFrame(pt, page_id) == IF page_id \in DOMAIN pt THEN pt[page_id] ELSE NoFrame

\* FlushPage run to completion: the frames and the disk after it
FlushPage(pt, fr, dk, page_id) ==
  LET f == GetFrame(pt, page_id)
  IN IF f = NoFrame THEN [frames |-> fr, disk |-> dk]
     ELSE [frames |-> [fr EXCEPT ![f].is_dirty = FALSE],
           disk |-> [dk EXCEPT ![page_id] = fr[f].data]]

\* the victim is never flushed
FlushIfDirty_Skip(pt, fr, dk, f) == [frames |-> fr, disk |-> dk]

\* the frames and the disk after "if (frame->is_dirty_) FlushPage(frame->page_id_)"
FlushIfDirty(pt, fr, dk, f) ==
  IF fr[f].is_dirty THEN FlushPage(pt, fr, dk, fr[f].page_id)
  ELSE [frames |-> fr, disk |-> dk]

\* SwapIn: the frame's buffer after the disk read
SwapInData(fr, dk, page_id, f) == [fr EXCEPT ![f].data = dk[page_id]]

\* SwapIn without page_table_[page_id] = frame_id
SwapInTable_NoInsert(pt, fr, page_id, f) ==
  [q \in DOMAIN pt |-> IF q = fr[f].page_id THEN NoFrame ELSE pt[q]]

\* SwapIn without page_table_.erase(frame->page_id_)
SwapInTable_NoErase(pt, fr, page_id, f) ==
  [q \in DOMAIN pt |-> IF q = page_id THEN f ELSE pt[q]]

\* SwapIn: the page table after erase(frame->page_id_) and page_table_[page_id] = frame_id
SwapInTable(pt, fr, page_id, f) ==
  [q \in DOMAIN pt |-> IF q = page_id THEN f
                       ELSE IF q = fr[f].page_id THEN NoFrame ELSE pt[q]]

\* PinFrame without pin_count_++
PinFrameHeader_NoPin(fr, f, page_id, is_dirty) ==
  [fr EXCEPT ![f].page_id = page_id,
             ![f].is_dirty = IF is_dirty THEN TRUE ELSE @]

\* PinFrame: the frame headers after it
PinFrameHeader(fr, f, page_id, is_dirty) ==
  [fr EXCEPT ![f].pin_count = @ + 1,
             ![f].page_id = page_id,
             ![f].is_dirty = IF is_dirty THEN TRUE ELSE @]

\* PinFrame without SetEvictable(frame_id, false)
PinFrameReplacer_KeepEvictable(r, f) == RecordAccess(r, f)

\* PinFrame that passes true to SetEvictable
PinFrameReplacer_MarksEvictable(r, f) == RecordAccess(SetEvictable(r, f, TRUE), f)

\* PinFrame: the replacer after SetEvictable(frame_id, false) and RecordAccess(frame_id)
PinFrameReplacer(r, f) == RecordAccess(SetEvictable(r, f, FALSE), f)

\* Reset that leaves the buffer as it is
Reset_KeepsData(fr, f) == [fr EXCEPT ![f] = [FrameHeader EXCEPT !.data = fr[f].data]]

\* FrameHeader::Reset
Reset(fr, f) == [fr EXCEPT ![f] = FrameHeader]

\* return ++next_page_id_
NewPageResult_PreIncrement(n) == n + 1

\* NewPage: the value returned and the counter afterwards (return next_page_id_++)
NewPageResult(n) == n
NewPageCounter(n) == n + 1

\* the rwlatch_ of frame f: the threads whose guard holds it
Holders(f) == {t \in Threads : guard[t].held /\ guard[t].frame_id = f}
Writers(f) == {t \in Holders(f) : guard[t].write}

\* DeletePage's test of the pin count that never refuses
Pinned_Never(fr, f) == FALSE

\* if (0 != frame->pin_count_)
Pinned(fr, f) == fr[f].pin_count /= 0

\* what DeletePage returns, or the exception that leaves it
DeletePageReturn(r, pt, fr, page_id) ==
  LET f == GetFrame(pt, page_id)
  IN IF f = NoFrame THEN "true"
     ELSE IF Pinned(fr, f) THEN "false"
     ELSE IF RemoveThrows(r, f) THEN "invalid_argument"
     ELSE "true"

\* GetPinCount under the latch: the empty optional is <<>>, a value n is <<n>>
GetPinCount(pt, fr, page_id) ==
  IF pt[page_id] = NoFrame THEN <<>> ELSE <<fr[pt[page_id]].pin_count>>

\* GetFreeFrame that takes the front of the list
GetFreeFrame_Front(ff) == [frame_id |-> ff[1], free_frames |-> SubSeq(ff, 2, Len(ff))]

\* GetFreeFrame on a non-empty list: free_frames_.back() and pop_back()
GetFreeFrame(ff) == [frame_id |-> ff[Len(ff)], free_frames |-> SubSeq(ff, 1, Len(ff) - 1)]

CanCall(t) == ~crashed /\ pc[t] = "idle"
\* a thread starts a pool operation that takes the latch only when it owns no guard
CanLatch(t) == CanCall(t) /\ guard[t] = NoGuard /\ bpm_latch = NoThread

-----------------------------------------------------------------------------
(* BufferPoolManager: operations *)

NewPage(t) ==
  /\ CanLatch(t)
  /\ next_page_id < MaxNewPages
  /\ alloc' = Append(alloc, [thread |-> t, page_id |-> NewPageResult(next_page_id)])
  /\ next_page_id' = NewPageCounter(next_page_id)
  /\ UNCHANGED <<hll, replacer, ret, page_table, free_frames, frames, bpm_latch, disk, pc, op,
                 guard, fl, nflush, committed, crashed>>

DeletePage(t, page_id) ==
  /\ CanLatch(t)
  /\ LET f == GetFrame(page_table, page_id)
     IN IF f = NoFrame \/ Pinned(frames, f)
        THEN UNCHANGED <<replacer, page_table, free_frames, frames, disk, committed>>
        ELSE
          LET flushed == FlushIfDirty(page_table, frames, disk, f)
          IN /\ disk' = flushed.disk
             /\ free_frames' = Append(free_frames, f)
             /\ committed' = [committed EXCEPT ![page_id] = -1]
             /\ IF RemoveThrows(replacer, f)
                THEN \* the exception leaves DeletePage after the push_back
                     /\ frames' = flushed.frames
                     /\ UNCHANGED <<replacer, page_table>>
                ELSE /\ replacer' = Remove(replacer, f)
                     /\ page_table' = [page_table EXCEPT ![page_id] = NoFrame]
                     /\ frames' = Reset(flushed.frames, f)
  /\ UNCHANGED <<hll, next_page_id, bpm_latch, pc, op, guard, fl, alloc, nflush, crashed>>

\* CheckedReadPage / CheckedWritePage, the page is resident: PinFrame and unlock
CheckedPageHit(t, page_id, write) ==
  /\ CanLatch(t)
  /\ replacer.current_timestamp < MaxPins
  /\ GetFrame(page_table, page_id) /= NoFrame
  /\ LET f == GetFrame(page_table, page_id)
     IN /\ frames' = PinFrameHeader(frames, f, page_id, write)
        /\ replacer' = PinFrameReplacer(replacer, f)
        /\ guard' = [guard EXCEPT ![t] = [page_id |-> page_id, frame_id |-> f,
                                          write |-> write, held |-> FALSE]]
  /\ UNCHANGED <<hll, ret, page_table, free_frames, next_page_id, bpm_latch, disk, pc, op, fl,
                 alloc, nflush, committed, crashed>>

\* the miss path once FindFreeOrEvict has produced frame f: flush, SwapIn
MissLoad(t, page_id, write, f, source) ==
  LET flushed == FlushIfDirty(page_table, frames, disk, f)
  IN /\ disk' = flushed.disk
     /\ frames' = SwapInData(flushed.frames, flushed.disk, page_id, f)
     /\ page_table' = SwapInTable(page_table, flushed.frames, page_id, f)
     /\ op' = [op EXCEPT ![t] = [page_id |-> page_id, frame_id |-> f, write |-> write,
                                 source |-> source, flushed |-> frames[f].is_dirty]]
     /\ pc' = [pc EXCEPT ![t] = "pin"]
     /\ bpm_latch' = t

\* CheckedReadPage / CheckedWritePage, the page is not resident: FindFreeOrEvict,
\* FlushPage of a dirty victim, SwapIn; the latch stays held for PinFrame
CheckedPageMiss(t, page_id, write) ==
  /\ CanLatch(t)
  /\ replacer.current_timestamp < MaxPins
  /\ GetFrame(page_table, page_id) = NoFrame
  /\ IF free_frames /= <<>>
     THEN /\ free_frames' = GetFreeFrame(free_frames).free_frames
          /\ replacer' = replacer
          /\ MissLoad(t, page_id, write, GetFreeFrame(free_frames).frame_id, "free")
     ELSE \E order \in Orders(replacer), undef \in [EmptyEvictable(replacer) -> UndefTs] :
            LET victim == EvictVictim(replacer, order, undef)
            IN /\ replacer' = EvictApply(replacer, victim)
               /\ free_frames' = free_frames
               /\ IF victim = NoFrame
                  THEN \* out of memory: std::nullopt, the latch is released
                       UNCHANGED <<page_table, frames, bpm_latch, disk, pc, op>>
                  ELSE MissLoad(t, page_id, write, victim, "evict")
  /\ UNCHANGED <<hll, next_page_id, guard, fl, alloc, nflush, committed, crashed>>

\* the miss path's PinFrame without lock.unlock()
CheckedPagePin_KeepsLatch(t) ==
  /\ ~crashed
  /\ pc[t] = "pin"
  /\ LET f == op[t].frame_id
     IN /\ frames' = PinFrameHeader(frames, f, op[t].page_id, op[t].write)
        /\ replacer' = PinFrameReplacer(replacer, f)
        /\ guard' = [guard EXCEPT ![t] = [page_id |-> op[t].page_id, frame_id |-> f,
                                          write |-> op[t].write, held |-> FALSE]]
  /\ pc' = [pc EXCEPT ![t] = "idle"]
  /\ op' = [op EXCEPT ![t] = NoOp]
  /\ UNCHANGED <<hll, ret, page_table, free_frames, next_page_id, bpm_latch, disk, fl, alloc,
                 nflush, committed, crashed>>

\* the miss path's PinFrame and unlock
CheckedPagePin(t) ==
  /\ ~crashed
  /\ pc[t] = "pin"
  /\ LET f == op[t].frame_id
     IN /\ frames' = PinFrameHeader(frames, f, op[t].page_id, op[t].write)
        /\ replacer' = PinFrameReplacer(replacer, f)
        /\ guard' = [guard EXCEPT ![t] = [page_id |-> op[t].page_id, frame_id |-> f,
                                          write |-> op[t].write, held |-> FALSE]]
  /\ bpm_latch' = NoThread
  /\ pc' = [pc EXCEPT ![t] = "idle"]
  /\ op' = [op EXCEPT ![t] = NoOp]
  /\ UNCHANGED <<hll, ret, page_table, free_frames, next_page_id, disk, fl, alloc, nflush, committed,
                 crashed>>

\* the guard's constructor takes the frame's rwlatch_ in its mode
GuardLock(t) ==
  /\ ~crashed
  /\ guard[t] /= NoGuard
  /\ ~guard[t].held
  /\ IF guard[t].write THEN Holders(guard[t].frame_id) = {}
                       ELSE Writers(guard[t].frame_id) = {}
  /\ guard' = [guard EXCEPT ![t].held = TRUE]
  /\ committed' = IF guard[t].write THEN [committed EXCEPT ![guard[t].page_id] = -1]
                  ELSE committed
  /\ UNCHANGED <<hll, replacer, ret, page_table, free_frames, frames, next_page_id, bpm_latch,
                 disk, pc, op, fl, alloc, nflush, crashed>>

\* the owner of a WriteGuard stores bytes through GetDataMut
GuardWrite(t, v) ==
  /\ CanCall(t)
  /\ guard[t].held
  /\ guard[t].write
  /\ frames[guard[t].frame_id].data /= v
  /\ frames' = [frames EXCEPT ![guard[t].frame_id].data = v]
  /\ UNCHANGED <<hll, replacer, ret, page_table, free_frames, next_page_id, bpm_latch, disk, pc,
                 op, guard, fl, alloc, nflush, committed, crashed>>

\* the guard's Drop: under the latch, unpin, mark evictable at zero, release the rwlatch_
GuardDrop(t) ==
  /\ CanCall(t)
  /\ guard[t].held
  /\ bpm_latch = NoThread
  /\ LET f == guard[t].frame_id
         n == frames[f].pin_count - 1
     IN /\ frames' = [frames EXCEPT ![f].pin_count = n]
        /\ replacer' = IF n = 0 THEN SetEvictable(replacer, f, TRUE) ELSE replacer
        /\ committed' = IF guard[t].write
                        THEN [committed EXCEPT ![guard[t].page_id] = frames[f].data]
                        ELSE committed
  /\ guard' = [guard EXCEPT ![t] = NoGuard]
  /\ UNCHANGED <<hll, ret, page_table, free_frames, next_page_id, bpm_latch, disk, pc, op, fl,
                 alloc, nflush, crashed>>

\* FlushPage called by a thread (no latch is taken): GetFrame and BUSTUB_ENSURE
FlushPageLookup(t, page_id) ==
  /\ CanCall(t)
  /\ guard[t] = NoGuard \/ guard[t].held
  /\ nflush < MaxFlush
  /\ nflush' = nflush + 1
  /\ LET f == GetFrame(page_table, page_id)
     IN IF f = NoFrame
        THEN UNCHANGED <<pc, fl, crashed>>
        ELSE IF frames[f].page_id /= page_id
        THEN crashed' = TRUE /\ UNCHANGED <<pc, fl>>
        ELSE /\ fl' = [fl EXCEPT ![t] = [page_id |-> page_id, frame_id |-> f]]
             /\ pc' = [pc EXCEPT ![t] = "flush_write"]
             /\ UNCHANGED crashed
  /\ UNCHANGED <<hll, replacer, ret, page_table, free_frames, frames, next_page_id, bpm_latch,
                 disk, op, guard, alloc, committed>>

\* FlushPage: the scheduled write of the frame's buffer to the page completes,
\* is_dirty_ = false, return true
FlushPageWrite(t) ==
  /\ ~crashed
  /\ pc[t] = "flush_write"
  /\ disk' = [disk EXCEPT ![fl[t].page_id] = frames[fl[t].frame_id].data]
  /\ frames' = [frames EXCEPT ![fl[t].frame_id].is_dirty = FALSE]
  /\ pc' = [pc EXCEPT ![t] = "idle"]
  /\ fl' = [fl EXCEPT ![t] = NoFlush]
  /\ UNCHANGED <<hll, replacer, ret, page_table, free_frames, next_page_id, bpm_latch,
                 op, guard, alloc, nflush, committed, crashed>>

Init ==
  /\ replacer = NewReplacer(NumFrames, K_DIST)
  /\ ret = NoRet
  /\ BpmInit
  /\ hll = NoHll

Next ==
  \/ \E t \in Threads, p \in Pages : DeletePage(t, p) /\ UNCHANGED ret
  \/ \E t \in Threads, p \in Pages, w \in BOOLEAN : CheckedPageHit(t, p, w)
  \/ \E t \in Threads, p \in Pages, w \in BOOLEAN : CheckedPageMiss(t, p, w) /\ UNCHANGED ret
  \/ \E t \in Threads : CheckedPagePin(t)
  \/ \E t \in Threads : GuardLock(t)
  \/ \E t \in Threads, v \in Vals : GuardWrite(t, v)
  \/ \E t \in Threads : GuardDrop(t)
  \/ \E t \in Threads, p \in Pages : FlushPageLookup(t, p)
  \/ \E t \in Threads : FlushPageWrite(t)

Spec == Init /\ [][Next]_vars

\* NewPage among the operations that contend with it for the latch
NextAlloc ==
  \/ \E t \in Threads : NewPage(t)
  \/ \E t \in Threads, p \in Pages, w \in BOOLEAN : CheckedPageHit(t, p, w)
  \/ \E t \in Threads, p \in Pages, w \in BOOLEAN : CheckedPageMiss(t, p, w) /\ UNCHANGED ret
  \/ \E t \in Threads : CheckedPagePin(t)
  \/ \E t \in Threads : GuardLock(t)
  \/ \E t \in Threads : GuardDrop(t)

SpecAlloc == Init /\ [][NextAlloc]_vars

-----------------------------------------------------------------------------
(* Page requests and guards under fair scheduling: a thread inside a request runs on
   (its disk requests complete), a thread waiting for a frame's rwlatch_ gets it once
   it stays available, and the owner of a guard drops it *)

NextLive ==
  \/ \E t \in Threads, p \in Pages, w \in BOOLEAN : CheckedPageHit(t, p, w)
  \/ \E t \in Threads, p \in Pages, w \in BOOLEAN : CheckedPageMiss(t, p, w) /\ UNCHANGED ret
  \/ \E t \in Threads : CheckedPagePin(t)
  \/ \E t \in Threads : GuardLock(t)
  \/ \E t \in Threads, v \in Vals : GuardWrite(t, v)
  \/ \E t \in Threads : GuardDrop(t)

Fairness ==
  \A t \in Threads :
    /\ WF_vars(CheckedPagePin(t))
    /\ WF_vars(GuardLock(t))
    /\ WF_vars(GuardDrop(t))

SpecLive == Init /\ [][NextLive]_vars /\ Fairness

-----------------------------------------------------------------------------
(* HyperLogLog (primer/hyperloglog.cpp) and HyperLogLogPresto
   (primer/hyperloglog_presto.cpp). A 64-bit hash and the std::bitset made of it are
   the set of the positions of their one-bits, position 0 the least significant. *)

\* the positions at which the hash values added have their one-bits
BitSample == {0, 1, 2, 15, 16, 31, 61, 62, 63}
HashInputs == {h \in SUBSET BitSample : Cardinality(h) <= MaxOnes}

\* bset >> n
ShiftRight(bset, n) == {i - n : i \in {x \in bset : x >= n}}

RECURSIVE ToUlong(_)
\* bset.to_ulong()
ToUlong(bset) ==
  IF bset = {} THEN 0
  ELSE LET i == CHOOSE x \in bset : TRUE IN 2^i + ToUlong(bset \ {i})

\* (bin >> (BITSET_CAPACITY - b_)).to_ulong()
BucketOf(bset, b) == ToUlong(ShiftRight(bset, BITSET_CAPACITY - b))

\* b_ = n_bits > 0 ? n_bits : 0
LeadingBits(n_bits) == IF n_bits > 0 THEN n_bits ELSE 0

NewHyperLogLog(n_bits) ==
  [kind |-> "HyperLogLog", b |-> LeadingBits(n_bits),
   buckets |-> [j \in 0..(2^LeadingBits(n_bits) - 1) |-> 0]]

RECURSIVE PositionLoop(_, _, _)
\* for (auto i = BITSET_CAPACITY - b_ - 1; i > 0; --i) from position i on
PositionLoop(bset, b, i) ==
  IF i > 0
  THEN IF i \in bset THEN BITSET_CAPACITY - b - i ELSE PositionLoop(bset, b, i - 1)
  ELSE BITSET_CAPACITY - b + 1

PositionOfLeftmostOne(bset, b) == PositionLoop(bset, b, BITSET_CAPACITY - b - 1)

HyperLogLogAddElem(hash) ==
  /\ hll.kind = "HyperLogLog"
  /\ LET pos == PositionOfLeftmostOne(hash, hll.b)
         bucket == BucketOf(hash, hll.b)
     IN /\ hll' = [hll EXCEPT !.buckets[bucket] = IF @ < pos THEN pos ELSE @]
        /\ ret' = [call |-> "PositionOfLeftmostOne", bset |-> hash, result |-> pos]
  /\ UNCHANGED <<replacer, bpmvars>>

InitHLL ==
  /\ \E n_bits \in (-1)..MaxBucketBits : hll = NewHyperLogLog(n_bits)
  /\ replacer = NewReplacer(NumFrames, K_DIST)
  /\ ret = NoRet
  /\ BpmInit

NextHLL == \E hash \in HashInputs : HyperLogLogAddElem(hash)

SpecHLL == InitHLL /\ [][NextHLL]_vars

\* `added` is the set of the hash values AddElem was called with
NewHyperLogLogPresto(n_leading_bits) ==
  [kind |-> "HyperLogLogPresto", b |-> LeadingBits(n_leading_bits),
   dense_bucket |-> [j \in 0..(2^LeadingBits(n_leading_bits) - 1) |-> 0],
   overflow_bucket |-> [j \in 0..(2^LeadingBits(n_leading_bits) - 1) |-> 0],
   added |-> {}]

RECURSIVE ZerosLoop(_, _, _)
\* for (size_t i = 0; i < bset.size() - b_; i++) from position i on
ZerosLoop(bset, b, i) ==
  IF i < BITSET_CAPACITY - b
  THEN IF i \in bset THEN i ELSE ZerosLoop(bset, b, i + 1)
  ELSE BITSET_CAPACITY - b

\* the loop started at position 1
CountOfRightMostContiguousZeros_SkipsBitZero(bset, b) == ZerosLoop(bset, b, 1)

CountOfRightMostContiguousZeros(bset, b) == ZerosLoop(bset, b, 0)

\* std::bitset<DENSE_BUCKET_SIZE>{rightMostZeros & DENSE_MASK}
DenseOf(n) == (n % (DENSE_MASK + 1)) % 2^DENSE_BUCKET_SIZE
\* std::bitset<OVERFLOW_BUCKET_SIZE>{(rightMostZeros >> DENSE_BUCKET_SIZE) & OVERFLOW_MASK}
OverflowOf(n) == ((n \div 2^DENSE_BUCKET_SIZE) % (OVERFLOW_MASK + 1)) % 2^OVERFLOW_BUCKET_SIZE

\* (overflow_bucket_[bucket].to_ulong() << DENSE_BUCKET_SIZE) + dense_bucket_[bucket].to_ulong()
Register(h, j) == h.overflow_bucket[j] * 2^DENSE_BUCKET_SIZE + h.dense_bucket[j]

PrestoAddElem(hash) ==
  /\ hll.kind = "HyperLogLogPresto"
  /\ Cardinality(hll.added) < MaxAdds
  /\ LET rightMostZeros == CountOfRightMostContiguousZeros(hash, hll.b)
         bucket == BucketOf(hash, hll.b)
     IN hll' = IF rightMostZeros > Register(hll, bucket)
               THEN [hll EXCEPT !.dense_bucket[bucket] = DenseOf(rightMostZeros),
                                !.overflow_bucket[bucket] = OverflowOf(rightMostZeros),
                                !.added = @ \cup {hash}]
               ELSE [hll EXCEPT !.added = @ \cup {hash}]
  /\ UNCHANGED <<replacer, ret, bpmvars>>

InitPresto ==
  /\ \E n_leading_bits \in (-1)..MaxBucketBits : hll = NewHyperLogLogPresto(n_leading_bits)
  /\ replacer = NewReplacer(NumFrames, K_DIST)
  /\ ret = NoRet
  /\ BpmInit

NextPresto == \E hash \in HashInputs : PrestoAddElem(hash)

SpecPresto == InitPresto /\ [][NextPresto]_vars

-----------------------------------------------------------------------------
(* The pool with the results of DeletePage and of missed page requests recorded in
   `ret`, for pools of 1..NumFrames frames *)

\* ret.seq alternates, so that two equal returns in a row are two different values
NextSeq == IF "seq" \in DOMAIN ret THEN 1 - ret.seq ELSE 1

CallDeletePage(t, page_id) ==
  /\ DeletePage(t, page_id)
  /\ ret' = [call |-> "DeletePage", page_id |-> page_id,
             frame_id |-> GetFrame(page_table, page_id),
             result |-> DeletePageReturn(replacer, page_table, frames, page_id),
             seq |-> NextSeq]

\* the request returns std::nullopt when it is not left waiting to pin a frame
CallCheckedPageMiss(t, page_id, write) ==
  /\ CheckedPageMiss(t, page_id, write)
  /\ ret' = [call |-> "CheckedPage", page_id |-> page_id,
             frame_id |-> IF pc'[t] = "pin" THEN op'[t].frame_id ELSE NoFrame,
             result |-> IF pc'[t] = "pin" THEN "frame" ELSE "nullopt",
             seq |-> NextSeq]

\* FlushAllPages is UNIMPLEMENTED(...): it throws before it touches anything
FlushAllPagesReturn == "not_implemented"

FlushAllPages(t) ==
  /\ CanCall(t)
  /\ UNCHANGED <<replacer, bpmvars, hll>>

CallFlushAllPages(t) ==
  /\ FlushAllPages(t)
  /\ ret' = [call |-> "FlushAllPages", page_id |-> INVALID_PAGE_ID, frame_id |-> NoFrame,
             result |-> FlushAllPagesReturn, seq |-> NextSeq]

InitCalls ==
  /\ \E n \in 1..NumFrames :
       /\ replacer = NewReplacer(n, K_DIST)
       /\ BpmInitOf(n)
  /\ ret = NoRet
  /\ hll = NoHll

NextCalls ==
  \/ \E t \in Threads, p \in Pages : CallDeletePage(t, p)
  \/ \E t \in Threads : CallFlushAllPages(t)
  \/ \E t \in Threads, p \in Pages, w \in BOOLEAN : CheckedPageHit(t, p, w)
  \/ \E t \in Threads, p \in Pages, w \in BOOLEAN : CallCheckedPageMiss(t, p, w)
  \/ \E t \in Threads : CheckedPagePin(t)
  \/ \E t \in Threads : GuardLock(t)
  \/ \E t \in Threads, v \in Vals : GuardWrite(t, v)
  \/ \E t \in Threads : GuardDrop(t)

SpecCalls == InitCalls /\ [][NextCalls]_vars

-----------------------------------------------------------------------------
(* Properties *)

Range(h) == {h[i] : i \in 1..Len(h)}
InFree(f) == f \in Range(free_frames)
FrameSet == DOMAIN frames
Node(f) == replacer.node_store[f]

\* C1: a frame with pin_count > 0 is not on the free list and not evictable in the
\* replacer, and the frame FindFreeOrEvict hands to a miss (from the free list or
\* from Evict) has pin_count 0 until that miss pins it.
C1_PinnedNeverVictim ==
  /\ \A f \in FrameSet :
       frames[f].pin_count > 0 => ~InFree(f) /\ ~Node(f).is_evictable
  /\ \A t \in Threads :
       pc[t] = "pin" => frames[op[t].frame_id].pin_count = 0

\* Evict has returned a frame to a miss while the other frame is pinned
C1_Witness ==
  \E t \in Threads :
    /\ pc[t] = "pin"
    /\ op[t].source = "evict"
    /\ \E f \in FrameSet : frames[f].pin_count > 0

\* C2: no page id is in two frame headers, and every guard on a page refers to the
\* one frame the page table maps the page to.
C2_OneFramePerPage ==
  /\ \A p \in Pages : Cardinality({f \in FrameSet : frames[f].page_id = p}) <= 1
  /\ \A t \in Threads :
       guard[t] /= NoGuard =>
         /\ page_table[guard[t].page_id] = guard[t].frame_id
         /\ frames[guard[t].frame_id].page_id = guard[t].page_id

\* two threads own guards on the same page after the pool evicted at least once
C2_Witness ==
  /\ \E t1, t2 \in Threads :
       /\ t1 /= t2
       /\ guard[t1] /= NoGuard
       /\ guard[t2] /= NoGuard
       /\ guard[t1].page_id = guard[t2].page_id
  /\ replacer.current_timestamp > NumFrames

\* the step reuses frame f: a miss takes it for another page, or DeletePage frees it
Reused(f) ==
  \/ \E t \in Threads : pc[t] = "idle" /\ pc'[t] = "pin" /\ op'[t].frame_id = f
  \/ ~InFree(f) /\ f \in Range(free_frames')

\* C3: when a frame whose dirty flag is set is reused, the step that overwrites or
\* resets its buffer leaves that buffer's bytes on disk under the frame's page.
C3_DirtyFlushedBeforeReuse ==
  [][\A f \in FrameSet :
       (frames[f].is_dirty /\ Reused(f)) => disk'[frames[f].page_id] = frames[f].data]_vars

\* a miss has taken a dirty frame from Evict and overwritten its buffer
C3_Witness ==
  \E t \in Threads : pc[t] = "pin" /\ op[t].source = "evict" /\ op[t].flushed

\* C4: a ReadGuard on page p sees the bytes the last WriteGuard on p left when it
\* was dropped, whatever happened in between short of a write or a delete of p.
C4_WriteThenRead ==
  \A t \in Threads :
    (guard[t].held /\ ~guard[t].write /\ committed[guard[t].page_id] /= -1)
      => frames[guard[t].frame_id].data = committed[guard[t].page_id]

\* the guards on page p that hold their frame's data lock
PageHolders(p) == {t \in Threads : guard[t].held /\ guard[t].page_id = p}

\* C5: the holders of the data lock for a page are one writer alone or readers only.
C5_WriterExclusive ==
  \A p \in Pages :
    (\E t \in PageHolders(p) : guard[t].write) => Cardinality(PageHolders(p)) = 1

\* a WriteGuard is live on a page while another thread's guard on that page waits
C5_Witness ==
  \E t1, t2 \in Threads :
    /\ guard[t1].held
    /\ guard[t1].write
    /\ guard[t2] /= NoGuard
    /\ ~guard[t2].held
    /\ guard[t2].page_id = guard[t1].page_id

\* C6: the i-th NewPage call returns i - 1, whichever thread makes it, so the values
\* are 0, 1, 2, ... without repeat or gap and increase within each thread.
C6_NewPageDense ==
  /\ \A i \in 1..Len(alloc) : alloc[i].page_id = i - 1
  /\ \A i, j \in 1..Len(alloc) :
       (i < j /\ alloc[i].thread = alloc[j].thread) => alloc[i].page_id < alloc[j].page_id
  /\ next_page_id = Len(alloc)

\* NewPage was called MaxNewPages times, by more than one thread, between page loads
C6_Witness ==
  /\ Len(alloc) = MaxNewPages
  /\ \E i, j \in 1..Len(alloc) : alloc[i].thread /= alloc[j].thread
  /\ \E t \in Threads : guard[t] /= NoGuard

\* the frames whose header carries page p and that are not on the free list
HeadersOf(p) == {f \in FrameSet : frames[f].page_id = p /\ ~InFree(f)}

\* C7: while the latch is free, page p is a key of the page table iff exactly one
\* frame off the free list has page_id p, and the table maps p to that frame.
C7_PageTableMatchesHeaders ==
  bpm_latch = NoThread =>
    \A p \in Pages :
      /\ page_table[p] /= NoFrame <=> Cardinality(HeadersOf(p)) = 1
      /\ page_table[p] /= NoFrame => HeadersOf(p) = {page_table[p]}

\* a page is resident beside a frame that DeletePage returned to the free list
C7_Witness ==
  /\ bpm_latch = NoThread
  /\ \E p \in Pages :
       /\ page_table[p] /= NoFrame
       /\ \E i \in 1..Len(free_frames) : free_frames[i] > page_table[p]

\* C8: Size() is the number of nodes whose evictable flag is set, between 0 and
\* num_frames.
C8_SizeCountsEvictable ==
  /\ Size(replacer) = Cardinality(Evictables(replacer))
  /\ Size(replacer) >= 0
  /\ Size(replacer) <= replacer.replacer_size

\* two frames were accessed and one of them is evictable
C8_Witness ==
  /\ Size(replacer) = 1
  /\ Cardinality({f \in FrameIds(replacer) : replacer.node_store[f].exist}) = 2

\* backward k-distance of frame u: infinite below k accesses, else the time since
\* the k-th most recent access
BackwardKDistance(r, u) ==
  LET h == r.node_store[u].history
  IN IF Len(h) < r.k THEN SIZE_MAX ELSE r.current_timestamp - h[r.k]

\* C9: the frame Evict returns is evictable and no evictable frame has a larger
\* backward k-distance.
C9_EvictMaxDistance ==
  [][(ret'.call = "Evict" /\ ret'.result = "frame") =>
       /\ ret'.frame_id \in Evictables(replacer)
       /\ \A u \in Evictables(replacer) :
            BackwardKDistance(replacer, u) <= BackwardKDistance(replacer, ret'.frame_id)]_vars

\* Evict returned a frame and left behind an evictable frame with k accesses
C9_Witness ==
  /\ ret.call = "Evict"
  /\ ret.result = "frame"
  /\ \E u \in Evictables(replacer) : Len(replacer.node_store[u].history) = replacer.k

\* the evictable frames with fewer than k recorded accesses
InfiniteCandidates(r) == {u \in Evictables(r) : Len(r.node_store[u].history) < r.k}

\* the smallest timestamp a non-empty history retains
OldestRetained(h) == CHOOSE x \in Range(h) : \A y \in Range(h) : x <= y

\* the frame Evict returned has a recorded access, and none of the candidates S has
\* an older oldest retained access
ReturnsOldestOf(r, S, victim) ==
  /\ victim \in S
  /\ r.node_store[victim].history /= <<>>
  /\ \A u \in S :
       r.node_store[u].history /= <<>> =>
         OldestRetained(r.node_store[victim].history) <= OldestRetained(r.node_store[u].history)

\* some candidate of S has a recorded access, so an oldest one exists
SomeAccessed(r, S) == \E u \in S : r.node_store[u].history /= <<>>

\* C10: when several evictable frames have fewer than k accesses, Evict returns
\* the one among them whose oldest retained access has the smallest timestamp.
C10_OldestAmongInfinite ==
  [][(/\ ret'.call = "Evict"
      /\ Cardinality(InfiniteCandidates(replacer)) >= 2
      /\ SomeAccessed(replacer, InfiniteCandidates(replacer))) =>
       ReturnsOldestOf(replacer, InfiniteCandidates(replacer), ret'.frame_id)]_vars

\* the same, when every such frame has at least one recorded access
EvictOldestWhenAllAccessed ==
  [][(/\ ret'.call = "Evict"
      /\ Cardinality(InfiniteCandidates(replacer)) >= 2
      /\ EmptyEvictable(replacer) = {}) =>
       ReturnsOldestOf(replacer, InfiniteCandidates(replacer), ret'.frame_id)]_vars

\* what an Evict step must do to a replacer with evictable set E: return a frame
\* of E, clear it and lower Size() by one; return nothing when E is empty
EvictTakesOne ==
  ret'.call = "Evict" =>
    IF Evictables(replacer) = {}
    THEN ret'.result = "nullopt"
    ELSE /\ ret'.result = "frame"
         /\ ret'.frame_id \in Evictables(replacer)
         /\ Evictables(replacer') = Evictables(replacer) \ {ret'.frame_id}
         /\ Size(replacer') = Size(replacer) - 1

\* C11: every Evict on m >= 1 evictable frames returns one of them, which stops
\* being evictable, and lowers Size() by one, and Evict on none returns no frame;
\* so m Evict calls in a row return m distinct frames and the next returns none.
C11_EvictDrains == [][EvictTakesOne]_vars

\* the same, for the current revision of the replacer
EvictDrainsCurrent == [][EvictTakesOne]_vars

\* C12: right after Evict returns frame f, and right after Remove(f) on an in-range
\* f returns without error, node f has an empty history and is not evictable.
C12_WipedAfterEvictOrRemove ==
  [][(\/ ret'.call = "Evict" /\ ret'.result = "frame"
      \/ ret'.call = "Remove" /\ ret'.result = "ok" /\ InRange(replacer, ret'.frame_id)) =>
       /\ replacer'.node_store[ret'.frame_id].history = <<>>
       /\ ~replacer'.node_store[ret'.frame_id].is_evictable]_vars

\* the same for Evict, and for Remove of a frame accessed since it was last wiped
WipedAfterEvictOrRemoveAccessed ==
  [][(\/ ret'.call = "Evict" /\ ret'.result = "frame"
      \/ /\ ret'.call = "Remove" /\ ret'.result = "ok" /\ InRange(replacer, ret'.frame_id)
         /\ replacer.node_store[ret'.frame_id].exist) =>
       /\ replacer'.node_store[ret'.frame_id].history = <<>>
       /\ ~replacer'.node_store[ret'.frame_id].is_evictable]_vars

\* C13: Evict on a replacer without an evictable node returns no frame and leaves
\* Size(), every node and the logical timestamp as they were.
C13_EvictNothingEvictable ==
  [][(ret'.call = "Evict" /\ Evictables(replacer) = {}) =>
       /\ ret'.result = "nullopt"
       /\ replacer' = replacer]_vars

\* Evict returned no frame although frames were accessed, one of them evicted before
C13_Witness ==
  /\ ret.call = "Evict"
  /\ ret.result = "nullopt"
  /\ \E f \in FrameIds(replacer) : replacer.node_store[f].history /= <<>>
  /\ \E f \in FrameIds(replacer) :
       replacer.node_store[f].history = <<>> /\ replacer.current_timestamp > 1

\* C14: Remove(f) of an in-range frame whose evictable flag is false fails with the
\* not-evictable error, accessed or not, and changes nothing.
C14_RemoveNonEvictableFails ==
  [][(/\ ret'.call = "Remove"
      /\ InRange(replacer, ret'.frame_id)
      /\ ~replacer.node_store[ret'.frame_id].is_evictable) =>
       /\ ret'.result = "invalid_argument"
       /\ replacer' = replacer]_vars

\* the same for frames accessed since they were last wiped
RemoveNonEvictableAccessedFails ==
  [][(/\ ret'.call = "Remove"
      /\ InRange(replacer, ret'.frame_id)
      /\ replacer.node_store[ret'.frame_id].exist
      /\ ~replacer.node_store[ret'.frame_id].is_evictable) =>
       /\ ret'.result = "invalid_argument"
       /\ replacer' = replacer]_vars

\* C15: RecordAccess and SetEvictable with a frame id outside [0, num_frames) fail
\* with the invalid-frame error and change no node, nor Size(), nor the timestamp.
C15_InvalidFrameRejected ==
  [][(/\ ret'.call \in {"RecordAccess", "SetEvictable"}
      /\ ~(ret'.frame_id >= 0 /\ ret'.frame_id < replacer.replacer_size)) =>
       /\ ret'.result = "invalid_argument"
       /\ replacer' = replacer]_vars

\* RecordAccess(num_frames) was rejected by a replacer that holds an evictable frame
C15_Witness ==
  /\ ret.call = "RecordAccess"
  /\ ret.frame_id = replacer.replacer_size
  /\ ret.result = "invalid_argument"
  /\ Evictables(replacer) /= {}
  /\ replacer.current_timestamp > 0

\* C16: Remove with a frame id outside [0, num_frames) raises no error and changes
\* nothing.
C16_RemoveOutOfRangeNoOp ==
  [][(/\ ret'.call = "Remove"
      /\ ~(ret'.frame_id >= 0 /\ ret'.frame_id < replacer.replacer_size)) =>
       /\ ret'.result = "ok"
       /\ replacer' = replacer]_vars

\* Remove(-1) returned on a replacer that holds an accessed evictable frame
C16_Witness ==
  /\ ret.call = "Remove"
  /\ ret.frame_id = -1
  /\ ret.result = "ok"
  /\ \E f \in Evictables(replacer) : replacer.node_store[f].history /= <<>>

\* C17: SetEvictable(f, v) on a node whose flag is v already changes nothing, and
\* after any SetEvictable(f, v) a second one leaves the replacer as it is.
C17_SetEvictableIdempotent ==
  [][(ret'.call = "SetEvictable" /\ ret'.result = "ok") =>
       /\ replacer.node_store[ret'.frame_id].is_evictable = ret'.flag => replacer' = replacer
       /\ SetEvictable(replacer', ret'.frame_id, ret'.flag) = replacer']_vars

\* SetEvictable(f, true) returned with two accessed frames evictable
C17_Witness ==
  /\ ret.call = "SetEvictable"
  /\ ret.result = "ok"
  /\ ret.flag
  /\ replacer.node_store[ret.frame_id].is_evictable
  /\ Size(replacer) = 2
  /\ replacer.current_timestamp > 1

\* the pool state a request sees and may change
PoolState == <<page_table, free_frames, frames, replacer, disk>>

\* page p is not resident, the free list is empty and every frame is pinned
NoFrameFor(p) ==
  /\ page_table[p] = NoFrame
  /\ free_frames = <<>>
  /\ \A f \in FrameSet : frames[f].pin_count > 0

\* the step ends a request for page p with std::nullopt
ReturnsNoGuard(p) ==
  /\ ret' /= ret
  /\ ret'.call = "CheckedPage"
  /\ ret'.result = "nullopt"
  /\ ret'.page_id = p

\* the step takes a frame for, or hands out a guard on, page p
GrantsFrame(p) ==
  \E t \in Threads :
    \/ pc[t] = "idle" /\ pc'[t] = "pin" /\ op'[t].page_id = p
    \/ guard[t] = NoGuard /\ guard'[t] /= NoGuard /\ guard'[t].page_id = p

\* C18: a page request returns no guard iff the page is not resident, the free list
\* is empty and every frame is pinned; a request that returns no guard changes
\* neither page table, free list, headers, replacer nor disk and leaves the latch free.
C18_NoGuardIffAllPinned ==
  [][\A p \in Pages :
       /\ ReturnsNoGuard(p) =>
            /\ NoFrameFor(p)
            /\ UNCHANGED PoolState
            /\ bpm_latch' = NoThread
       /\ GrantsFrame(p) => ~NoFrameFor(p)]_vars

\* a request was turned away while every frame of the pool was pinned through a guard
C18_Witness ==
  /\ ret.call = "CheckedPage"
  /\ ret.result = "nullopt"
  /\ \A f \in FrameSet : frames[f].pin_count > 0
  /\ \E t \in Threads : guard[t].held

\* the step is DeletePage(p) returning or throwing
DeletePageStep(p) ==
  /\ ret' /= ret
  /\ ret'.call = "DeletePage"
  /\ ret'.page_id = p

\* C19: DeletePage(p) returns false exactly when p is resident and pinned, true when
\* p is not resident, and in both cases changes neither page table, free list,
\* headers, replacer nor disk.
C19_DeletePageRefusals ==
  [][\A p \in Pages :
       DeletePageStep(p) =>
         /\ ret'.result = "false" <=>
              (page_table[p] /= NoFrame /\ frames[page_table[p]].pin_count > 0)
         /\ page_table[p] = NoFrame => ret'.result = "true"
         /\ (ret'.result = "false" \/ page_table[p] = NoFrame) => UNCHANGED PoolState]_vars

\* DeletePage refused a page that is pinned and holds bytes not yet on disk
C19_Witness ==
  /\ ret.call = "DeletePage"
  /\ ret.result = "false"
  /\ page_table[ret.page_id] /= NoFrame
  /\ frames[page_table[ret.page_id]].pin_count > 0
  /\ frames[page_table[ret.page_id]].data /= disk[ret.page_id]

\* C20: after DeletePage(p) returned true for a resident p: p is not in the page
\* table, its frame is on the free list once with a reset header and a zeroed
\* buffer, the frame's node is non-evictable with empty history, Size() is one lower.
C20_DeletePageFreesFrame ==
  [][\A p \in Pages :
       (DeletePageStep(p) /\ ret'.result = "true" /\ page_table[p] /= NoFrame) =>
         LET f == page_table[p]
         IN /\ page_table'[p] = NoFrame
            /\ Cardinality({i \in 1..Len(free_frames') : free_frames'[i] = f}) = 1
            /\ frames'[f] = [page_id |-> INVALID_PAGE_ID, pin_count |-> 0,
                             is_dirty |-> FALSE, data |-> 0]
            /\ replacer'.node_store[f].history = <<>>
            /\ ~replacer'.node_store[f].is_evictable
            /\ Size(replacer') = Size(replacer) - 1]_vars

\* DeletePage returned true for a resident page whose written bytes it flushed
C20_Witness ==
  /\ ret.call = "DeletePage"
  /\ ret.result = "true"
  /\ ret.frame_id /= NoFrame
  /\ disk[ret.page_id] /= 0
  /\ InFree(ret.frame_id)

\* C21: FlushPage(p) on a page that is not resident returns false without a disk
\* write; on a resident page it goes on to write the buffer of p's frame to page p,
\* clears that frame's dirty flag and returns, and it changes neither pin counts,
\* page table, free list nor replacer.
C21_FlushPageContract ==
  [][\A t \in Threads :
       /\ \A p \in Pages :
            FlushPageLookup(t, p) =>
              /\ UNCHANGED PoolState
              /\ page_table[p] = NoFrame => pc'[t] = "idle" /\ ~crashed'
              /\ page_table[p] /= NoFrame => pc'[t] = "flush_write" /\ ~crashed'
       /\ FlushPageWrite(t) =>
            LET p == fl[t].page_id
                f == fl[t].frame_id
            IN /\ page_table[p] = f
               /\ disk'[p] = frames[f].data
               /\ ~frames'[f].is_dirty
               /\ \A g \in FrameSet : frames'[g].pin_count = frames[g].pin_count
               /\ UNCHANGED <<page_table, free_frames, replacer>>]_vars

\* the lookup half of that contract for calls made while no thread holds the latch
FlushPageLookupLatchFree ==
  [][\A t \in Threads, p \in Pages :
       (FlushPageLookup(t, p) /\ bpm_latch = NoThread) =>
         /\ UNCHANGED PoolState
         /\ page_table[p] = NoFrame => pc'[t] = "idle" /\ ~crashed'
         /\ page_table[p] /= NoFrame => pc'[t] = "flush_write" /\ ~crashed']_vars

\* C22: FlushAllPages returns normally, and when it has returned every resident
\* page's frame is clean and the page's content on disk equals the frame's buffer.
C22_FlushAllPagesFlushes ==
  [][(ret' /= ret /\ ret'.call = "FlushAllPages") =>
       /\ ret'.result = "ok"
       /\ \A p \in Pages :
            page_table'[p] /= NoFrame =>
              /\ ~frames'[page_table'[p]].is_dirty
              /\ disk'[p] = frames'[page_table'[p]].data]_vars

\* the guards on page p that were pinned and are not yet dropped
GuardsOn(p) == {t \in Threads : guard[t] /= NoGuard /\ guard[t].page_id = p}

\* C23: the pin count of every resident page equals the number of guards pinned on it
\* and not yet dropped and is never below 0; GetPinCount(p), which runs under the
\* latch, returns that number for a resident page and the empty optional exactly for
\* a page that is not resident.
C23_PinCountCountsGuards ==
  /\ \A f \in FrameSet : frames[f].pin_count >= 0
  /\ \A p \in Pages :
       /\ page_table[p] /= NoFrame =>
            frames[page_table[p]].pin_count = Cardinality(GuardsOn(p))
       /\ bpm_latch = NoThread =>
            /\ GetPinCount(page_table, frames, p) = <<>> <=> page_table[p] = NoFrame
            /\ page_table[p] /= NoFrame =>
                 GetPinCount(page_table, frames, p) = <<Cardinality(GuardsOn(p))>>

C23_Witness ==
  \E p \in Pages :
    /\ bpm_latch = NoThread
    /\ Cardinality(GuardsOn(p)) = 2
    /\ GetPinCount(page_table, frames, p) = <<2>>
    /\ \E q \in Pages : GetPinCount(page_table, frames, q) = <<>>

\* the threads that hold a WriteGuard on page p
PageWriters(p) == {u \in Threads : guard[u].held /\ guard[u].write /\ guard[u].page_id = p}

\* C24: ReadGuards on one page coexist: a thread whose CheckedReadPage(p) has pinned
\* p's frame takes the frame's lock without waiting whenever no WriteGuard on p is
\* live, however many ReadGuards on p are.
C24_ReadGuardsShare ==
  \A t \in Threads :
    ( /\ ~crashed
      /\ guard[t] /= NoGuard
      /\ ~guard[t].held
      /\ ~guard[t].write
      /\ PageWriters(guard[t].page_id) = {} ) => ENABLED GuardLock(t)

C24_Witness ==
  \E t, u \in Threads :
    /\ t /= u
    /\ guard[t].held /\ ~guard[t].write
    /\ guard[u].held /\ ~guard[u].write
    /\ guard[t].page_id = guard[u].page_id
    /\ guard[t].frame_id = guard[u].frame_id

\* C25: with one guard per thread at most, guards that are dropped and disk requests
\* that complete, a page request that holds the pool latch finishes and releases it,
\* a thread waiting for a frame's lock gets it, and every guard is dropped: pool
\* latch and frame locks never block one another for good.
C25_RequestsAndDropsComplete ==
  /\ \A t \in Threads : (pc[t] = "pin") ~> (pc[t] = "idle")
  /\ \A t \in Threads : (bpm_latch = t) ~> (bpm_latch = NoThread)
  /\ \A t \in Threads : (guard[t] /= NoGuard /\ ~guard[t].held) ~> guard[t].held
  /\ \A t \in Threads : guard[t].held ~> (guard[t] = NoGuard)

\* a request has pinned a frame and waits for its lock, which another thread's
\* WriteGuard holds and can only give up by taking the pool latch in its Drop
C25_Witness ==
  \E t, u \in Threads :
    /\ guard[t] /= NoGuard /\ ~guard[t].held
    /\ guard[u].held /\ guard[u].write
    /\ guard[u].frame_id = guard[t].frame_id

\* C26: a thread whose wait for a disk read or write has just completed does not
\* hold the pool latch: the miss path releases it before it waits for the I/O.
C26_NoLatchAcrossIO ==
  \A t \in Threads : pc[t] = "pin" => bpm_latch /= t

\* C27: an operation reads or writes the page table, the free list, the replacer, a
\* dirty flag or a page_id only under the pool latch: FlushPage looks the page up,
\* compares page_id_ and clears is_dirty_ only while no other thread holds the latch.
C27_FlushPageUnderLatch ==
  [][\A t \in Threads :
       ((\E p \in Pages : FlushPageLookup(t, p)) \/ FlushPageWrite(t)) =>
         bpm_latch \in {NoThread, t}]_vars

\* C28: whenever the content of page p on disk changes, the bytes written are the
\* buffer of a frame that holds page p at that moment.
C28_WriteCarriesOwnPage ==
  [][\A p \in Pages :
       disk'[p] /= disk[p] =>
         \E f \in FrameSet : frames[f].page_id = p /\ disk'[p] = frames[f].data]_vars

\* the pages on which a WriteGuard is live
WriteGuarded == {guard[t].page_id : t \in {u \in Threads : guard[u] /= NoGuard /\ guard[u].write}}

\* C29: a resident frame without a live WriteGuard whose buffer differs from its
\* page on disk is dirty.
C29_DivergedIsDirty ==
  \A p \in Pages :
    ( /\ page_table[p] /= NoFrame
      /\ frames[page_table[p]].page_id = p
      /\ p \notin WriteGuarded
      /\ frames[page_table[p]].data /= disk[p] ) => frames[page_table[p]].is_dirty

\* the frames that hold a page
Resident == {page_table[p] : p \in Pages} \ {NoFrame}

\* C30: while no thread is inside a pool operation or a guard's Drop, a resident
\* frame is evictable in the replacer exactly when its pin count is 0, and no frame
\* on the free list is evictable.
C30_EvictableIffUnpinned ==
  bpm_latch = NoThread =>
    /\ \A f \in Resident : Node(f).is_evictable <=> frames[f].pin_count = 0
    /\ \A f \in FrameSet : InFree(f) => ~Node(f).is_evictable

\* an unpinned resident frame is evictable while a frame that was handed out before
\* it is back on the free list
C30_Witness ==
  /\ bpm_latch = NoThread
  /\ \E f \in Resident, g \in FrameSet :
       /\ frames[f].pin_count = 0
       /\ Node(f).is_evictable
       /\ InFree(g)
       /\ g > f

\* how often frame f is on the free list, and the page-table keys that map to it
FreeCount(f) == Cardinality({i \in 1..Len(free_frames) : free_frames[i] = f})
KeysOf(f) == {p \in Pages : page_table[p] = f}

\* C31: whenever the pool latch can be taken, every frame is either once on the free
\* list or the value of exactly one page-table key, never both, so the free list's
\* length and the page table's size add up to the number of frames.
C31_FramesConserved ==
  bpm_latch = NoThread =>
    /\ \A f \in FrameSet : FreeCount(f) + Cardinality(KeysOf(f)) = 1
    /\ Len(free_frames) + Cardinality({p \in Pages : page_table[p] /= NoFrame})
         = Cardinality(FrameSet)

\* a frame has come back to the free list through DeletePage while another frame
\* holds a page
C31_Witness ==
  /\ bpm_latch = NoThread
  /\ \E f, g \in FrameSet :
       /\ g > f
       /\ free_frames = <<g>>
       /\ Cardinality(KeysOf(f)) = 1

\* C32: a miss that finds the free list non-empty takes the frame pushed last, the
\* replacer is left as it was and every other page keeps its frame; a miss changes
\* the replacer (Evict) only when the free list is empty.
C32_FreeFrameFirst ==
  [][\A t \in Threads, p \in Pages, w \in BOOLEAN :
       CheckedPageMiss(t, p, w) =>
         /\ free_frames /= <<>> =>
              /\ op'[t].frame_id = free_frames[Len(free_frames)]
              /\ free_frames' = SubSeq(free_frames, 1, Len(free_frames) - 1)
              /\ page_table'[p] = free_frames[Len(free_frames)]
              /\ replacer' = replacer
              /\ \A q \in Pages \ {p} : page_table'[q] = page_table[q]
         /\ replacer' /= replacer => free_frames = <<>>]_vars

\* a miss has taken the frame that DeletePage pushed back, while the frame handed
\* out after it still holds its page
C32_Witness ==
  \E t \in Threads, f, g \in FrameSet :
    /\ pc[t] = "pin"
    /\ op[t].source = "free"
    /\ op[t].frame_id = g
    /\ g > f
    /\ \E q \in Pages \ {op[t].page_id} : page_table[q] = f

\* C33: a page request that finds the page resident reads and writes no disk page and
\* leaves page table, free list and all other frames and replacer nodes alone; on the
\* page's frame it adds one to pin_count, sets is_dirty for a write and keeps it for
\* a read, and in the replacer the frame's node is non-evictable with the access
\* recorded at the current timestamp.
C33_HitTouchesOneFrame ==
  [][\A t \in Threads, p \in Pages, w \in BOOLEAN :
       CheckedPageHit(t, p, w) =>
         LET f == page_table[p]
             h == replacer.node_store[f].history
             h2 == replacer'.node_store[f].history
         IN /\ disk' = disk
            /\ page_table' = page_table
            /\ free_frames' = free_frames
            /\ \A g \in FrameSet \ {f} :
                 /\ frames'[g] = frames[g]
                 /\ replacer'.node_store[g] = replacer.node_store[g]
            /\ frames'[f] = [frames[f] EXCEPT !.pin_count = @ + 1,
                                              !.is_dirty = IF w THEN TRUE ELSE @]
            /\ ~replacer'.node_store[f].is_evictable
            /\ h2[1] = replacer.current_timestamp
            /\ Len(h2) = IF Len(h) < replacer.k THEN Len(h) + 1 ELSE replacer.k
            /\ replacer'.current_timestamp = replacer.current_timestamp + 1]_vars

\* a write request has hit a page that a read request had loaded: two pins, dirty
C33_Witness ==
  \E t, u \in Threads :
    /\ guard[t] /= NoGuard /\ ~guard[t].write
    /\ guard[u] /= NoGuard /\ guard[u].write
    /\ guard[t].frame_id = guard[u].frame_id
    /\ frames[guard[t].frame_id].pin_count = 2
    /\ frames[guard[t].frame_id].is_dirty
    /\ disk[guard[t].page_id] = frames[guard[t].frame_id].data

\* the histories hold at most k timestamps each, newest first, all below the
\* current timestamp and no timestamp twice
HistoriesWellFormed ==
  /\ \A f \in FrameIds(replacer) :
       LET h == replacer.node_store[f].history
       IN /\ Len(h) <= replacer.k
          /\ \A i \in 1..Len(h) : h[i] < replacer.current_timestamp
          /\ \A i, j \in 1..Len(h) : i < j => h[i] > h[j]
  /\ \A f, g \in FrameIds(replacer) :
       f /= g => Range(replacer.node_store[f].history)
                   \cap Range(replacer.node_store[g].history) = {}

ShorterOf(a, b) == IF a < b THEN a ELSE b

\* C34: every call leaves each node's history as the newest min(k, n) access
\* timestamps of its frame since the node was last wiped, newest first: a
\* RecordAccess puts the current timestamp in front of the newest k - 1 entries of
\* that one history and adds one to the timestamp, any other call leaves a history
\* as it is or wipes it; so the timestamps kept are distinct and below the current one.
C34_HistoryKeepsNewestK ==
  [][/\ HistoriesWellFormed'
     /\ LET ts == replacer.current_timestamp
            k == replacer.k
            Hist(f) == replacer.node_store[f].history
            HistAfter(f) == replacer'.node_store[f].history
        IN IF replacer'.current_timestamp /= ts
           THEN /\ replacer'.current_timestamp = ts + 1
                /\ \E f \in FrameIds(replacer) :
                     /\ HistAfter(f) =
                          <<ts>> \o SubSeq(Hist(f), 1, ShorterOf(Len(Hist(f)), k - 1))
                     /\ \A g \in FrameIds(replacer) \ {f} : HistAfter(g) = Hist(g)
           ELSE \A f \in FrameIds(replacer) : HistAfter(f) \in {Hist(f), <<>>}]_vars

\* a frame accessed three times with k = 2 has lost its first access
C34_Witness ==
  /\ replacer.k = 2
  /\ \E f \in FrameIds(replacer) :
       /\ replacer.node_store[f].history = <<2, 1>>
       /\ \A g \in FrameIds(replacer) \ {f} : replacer.node_store[g].history = <<>>

\* the one-bits of bset below the b leading bucket bits
LowBits(bset, b) == {i \in bset : i < BITSET_CAPACITY - b}
MaxOf(S) == CHOOSE x \in S : \A y \in S : y <= x
MinOf(S) == CHOOSE x \in S : \A y \in S : x <= y

\* C35: PositionOfLeftmostOne returns the position, counted from 1 at the most
\* significant of the 64 - b bits below the bucket bits, of the leftmost one-bit
\* among them, and 64 - b + 1 exactly when none of them is set.
C35_LeftmostOnePosition ==
  (ret.call = "PositionOfLeftmostOne") =>
    LET low == LowBits(ret.bset, hll.b)
    IN /\ low /= {} => ret.result = BITSET_CAPACITY - hll.b - MaxOf(low)
       /\ ret.result = BITSET_CAPACITY - hll.b + 1 <=> low = {}

\* the claimed position is returned whenever a bit above bit 0 is set or none is
LeftmostOneAboveBitZero ==
  (ret.call = "PositionOfLeftmostOne" /\ LowBits(ret.bset, hll.b) /= {0}) =>
    LET low == LowBits(ret.bset, hll.b)
    IN /\ low /= {} => ret.result = BITSET_CAPACITY - hll.b - MaxOf(low)
       /\ ret.result = BITSET_CAPACITY - hll.b + 1 <=> low = {}

\* the number of zero bits below the lowest one-bit of the hash, at most 64 - b
TrailingZeros(bset, b) ==
  IF LowBits(bset, b) = {} THEN BITSET_CAPACITY - b ELSE MinOf(LowBits(bset, b))

\* C36: after any AddElem calls, register j (overflow[j] * 16 + dense[j]) is the
\* largest count of trailing zero bits, capped at 64 - b, among the hashes added
\* whose b leading bits are j, and 0 when none was added.
C36_RegisterIsMaxZeros ==
  hll.kind = "HyperLogLogPresto" =>
    \A j \in DOMAIN hll.dense_bucket :
      hll.overflow_bucket[j] * 16 + hll.dense_bucket[j] =
        MaxOf({0} \cup {TrailingZeros(h, hll.b) : h \in {x \in hll.added : BucketOf(x, hll.b) = j}})

\* a later AddElem lowers no register
PrestoRegistersMonotone ==
  [][hll.kind = "HyperLogLogPresto" =>
       \A j \in DOMAIN hll.dense_bucket : Register(hll', j) >= Register(hll, j)]_vars

\* a register holds a count that needs the overflow bits, left there by an AddElem
\* that came before one with fewer trailing zeros in the same bucket
C36_Witness ==
  /\ hll.kind = "HyperLogLogPresto"
  /\ hll.b > 0
  /\ \E j \in DOMAIN hll.dense_bucket :
       /\ j > 0
       /\ hll.overflow_bucket[j] > 0
       /\ hll.dense_bucket[j] > 0
       /\ \E h \in hll.added : BucketOf(h, hll.b) = j /\ TrailingZeros(h, hll.b) < Register(hll, j)

=============================================================================
